---- MODULE Spec2Model ----
(***************************************************************************)
(* Model of genie-worldmodel/scripts/inference_server.py: the interactive  *)
(* inference session (GenieInferenceSession), the websocket handler        *)
(* (handle_client) and the server bootstrap (main).                        *)
(*                                                                         *)
(* A frame is abstracted to one pixel value, the integer n standing for    *)
(* the real number n / PixDen.  The tokenizer, the action quantizer and    *)
(* the dynamics model are external: each call to them either raises or     *)
(* returns, and what detokenize returns is a free choice of frame values.  *)
(*                                                                         *)
(* Python runs the handlers as asyncio tasks on one thread: a task keeps   *)
(* the event loop from one await to the next.  loop names the task that    *)
(* holds the event loop, 0 when every task is suspended at an await.       *)
(***************************************************************************)
EXTENDS Integers, Sequences, FiniteSets, TLC

\* ------------------------------------------------------------- bounds
\* context_window ranges over 1 .. MaxW
MaxW == 2
\* prediction_horizon ranges over 1 .. MaxH
MaxH == 2
\* the action codebook has at most MaxN entries
MaxN == 3
\* a direct caller steps only while the history stays within MaxHist frames
MaxHist == 4
\* a direct caller passes action ids in -MaxAction .. MaxAction
MaxAction == 4
\* connections the server accepts
MaxConns == 2
\* messages a connection buffers
MaxInbox == 2
\* messages the clients send altogether
MaxMsgs == 2
\* a pixel value n stands for n / PixDen
PixDen == 32

\* ------------------------------------------------- program constants
\* (frame + 1) * 127.5 maps the signed range onto 0 .. 255
DisplayMax == 255

VARIABLES
    context_window,     \* self.context_window
    prediction_horizon, \* self.prediction_horizon
    codebook_size,      \* self.lam.quantizer.codebook_size, 0 when self.lam is None
    has_frames,         \* self.generated_frames is not None
    generated_frames,   \* self.generated_frames, <<>> while it is None
    main_pc,            \* where main() is: "construct", "serving"; "api" for a direct caller
    initial_frames,     \* the frames handed to set_initial_context, <<>> when none are
    loop,               \* the task holding the event loop, 0 when none does
    pc,                 \* each task's position
    message,            \* handle_client's local message, NoMessage when it has none
    action_id,          \* step's argument action_id, as the caller passed it
    hist0,              \* the history when the task's step was entered
    context,            \* step's local context
    action_latent,      \* the id whose latent was looked up, NoLookup when none was
    next_latents,       \* how many frames of latents forward_inference returned
    next_frames,        \* step's local next_frames
    frame,              \* step's return value (one pixel of it), NoFrame before
    error,              \* the exception the task's step raised, "" when none
    calls,              \* the gateway calls made for the task's current message
    inbox,              \* messages received on the connection and not yet handled
    open,               \* whether the client's end of the connection is open
    closed,             \* whether the server's event loop has seen the connection close
    sent,               \* the frames sent on the connection
    started,            \* how many steps the connection's handler has called
    msgs_left           \* messages the clients may still send

sessvars == <<context_window, prediction_horizon, codebook_size, has_frames,
              generated_frames>>
stepvars == <<message, action_id, hist0, context, action_latent, next_latents,
              next_frames, frame, error, calls>>
connvars == <<inbox, open, closed, sent, started, msgs_left>>
vars == <<sessvars, main_pc, initial_frames, loop, pc, stepvars, connvars>>

\* ------------------------------------------------------------- values
Tasks == 1 .. MaxConns
\* action_latent = None
NoLookup == -1
\* no frame returned (yet)
NoFrame == -1
\* handle_client has no message
NoMessage == [kind |-> "none", action |-> 0]

\* pixel values a decoded or seed frame may hold: inside and above the range
FrameVals == {-1, PixDen + 1}
\* every pixel value of the conversion's domain that the model draws
PixelVals == (-2 * PixDen) .. (2 * PixDen)
ActionIds == (-MaxAction) .. MaxAction

RECURSIVE SeqsUpTo(_, _)
SeqsUpTo(S, n) ==
    IF n = 0 THEN {<<>>}
    ELSE LET shorter == SeqsUpTo(S, n - 1)
         IN  shorter \cup {Append(s, x) : s \in {t \in shorter : Len(t) = n - 1}, x \in S}

SeqsOfLen(S, n) == {s \in SeqsUpTo(S, n) : Len(s) = n}

Min(a, b) == IF a < b THEN a ELSE b
Max(a, b) == IF a > b THEN a ELSE b

\* ----------------------------------------------- pure parts of step
\* seq[-n:] of Python: the last n elements, all of them when n = 0 or
\* n exceeds the length
LastSliceFirst(seq, n) == SubSeq(seq, 1, Min(n, Len(seq)))
LastSlice(seq, n) ==
    IF n = 0 THEN seq
    ELSE SubSeq(seq, Max(Len(seq) - n, 0) + 1, Len(seq))

\* context = self.generated_frames[:, -self.context_window:]
ContextOfWhole(frames, w) == frames
ContextOfFirst(frames, w) == LastSliceFirst(frames, w)
ContextOf(frames, w) == LastSlice(frames, w)

\* n_actions = codebook_size if self.lam is not None else 1
NActions(n) == IF n > 0 THEN n ELSE 1

\* action_id % n_actions of Python: the remainder has the divisor's sign
TruncMod(a, n) == IF a >= 0 THEN a % n ELSE -((-a) % n)
PyMod(a, n) == a % n

EffectiveActionClamped(a, n) == Max(0, Min(a, NActions(n) - 1))
EffectiveActionTrunc(a, n) == TruncMod(a, NActions(n))
EffectiveAction(a, n) == PyMod(a, NActions(n))

\* torch.cat([generated_frames, next_frames[:, -prediction_horizon:]], dim=1)
AppendedInFront(frames, nxt, h) == LastSlice(nxt, h) \o frames
AppendedAll(frames, nxt, h) == frames \o nxt
Appended(frames, nxt, h) == frames \o LastSlice(nxt, h)

\* .clamp(-1, 1)
ClampNone(v) == v
Clamp(v) == Max(-PixDen, Min(PixDen, v))

\* .byte(): the float is truncated toward zero and kept modulo 256
ByteOf(num, den) ==
    LET q == IF num >= 0 THEN num \div den ELSE -((-num) \div den)
    IN  q % (DisplayMax + 1)

\* ((frame.clamp(-1, 1) + 1) * 127.5).byte()
ToDisplay(v) == ByteOf((Clamp(v) + PixDen) * DisplayMax, 2 * PixDen)

\* the value the documented conversion gives:
\* clamp(round((v + 1) * 127.5), 0, 255), halves rounded to even as torch.round does
RoundDiv(num, den) ==
    LET q == num \div den
        r == num % den
    IN  IF 2 * r > den \/ (2 * r = den /\ q % 2 = 1) THEN q + 1 ELSE q

RoundedDisplay(v) ==
    Max(0, Min(DisplayMax, RoundDiv((v + PixDen) * DisplayMax, 2 * PixDen)))
\* ------------------------------------------------------- scheduling
\* the awaits of handle_client: async for message in websocket, and
\* await websocket.send(png_bytes)
AwaitPointsWithPredict == {"recv", "send", "predict"}
AwaitPoints == {"recv", "send"}

\* positions at which a task does not hold the event loop: the awaits, a
\* handler not started or ended, a direct caller between its calls
Suspended == AwaitPoints \cup {"idle", "done", "api"}
LoopAfter(c, p) == IF p \in Suspended THEN 0 ELSE c
Runnable(c) == loop = c \/ (loop = 0 /\ pc[c] \in Suspended)

\* positions inside GenieInferenceSession.step
StepPcs == {"enter", "encode", "action", "predict", "decode", "commit", "convert"}
\* positions at which step is inside a call to a gateway
GatewayPcs == {"encode", "action", "predict", "decode"}

Goto(c, p) ==
    /\ pc' = [pc EXCEPT ![c] = p]
    /\ loop' = LoopAfter(c, p)

\* the step raises: nothing after the raise runs
Raise(c, e) ==
    /\ error' = [error EXCEPT ![c] = e]
    /\ Goto(c, "raised")

ClearedLocals(c) ==
    /\ message' = [message EXCEPT ![c] = NoMessage]
    /\ action_id' = [action_id EXCEPT ![c] = 0]
    /\ hist0' = [hist0 EXCEPT ![c] = <<>>]
    /\ context' = [context EXCEPT ![c] = <<>>]
    /\ action_latent' = [action_latent EXCEPT ![c] = NoLookup]
    /\ next_latents' = [next_latents EXCEPT ![c] = 0]
    /\ next_frames' = [next_frames EXCEPT ![c] = <<>>]
    /\ calls' = [calls EXCEPT ![c] = <<>>]

\* ------------------------------------------ GenieInferenceSession
\* a set_initial_context that adds the frames to the ones the session holds
SetInitialContextAdding(frames) ==
    /\ has_frames' = TRUE
    /\ generated_frames' = generated_frames \o frames
    /\ UNCHANGED <<context_window, prediction_horizon, codebook_size>>

\* set_initial_context(frames)
SetInitialContext(frames) ==
    /\ has_frames' = TRUE
    /\ generated_frames' = frames
    /\ UNCHANGED <<context_window, prediction_horizon, codebook_size>>

\* step, lines 61-64: the None check and the context slice
StepCheckLate(c) ==
    /\ pc[c] = "enter"
    /\ Runnable(c)
    /\ hist0' = [hist0 EXCEPT ![c] = generated_frames]
    /\ context' = [context EXCEPT ![c] = ContextOf(generated_frames, context_window)]
    /\ Goto(c, "encode")
    /\ UNCHANGED error
    /\ UNCHANGED <<sessvars, main_pc, initial_frames, message, action_id, action_latent, next_latents,
                   next_frames, frame, calls, connvars>>

StepCheck(c) ==
    /\ pc[c] = "enter"
    /\ Runnable(c)
    /\ hist0' = [hist0 EXCEPT ![c] = generated_frames]
    /\ IF ~has_frames
       THEN /\ Raise(c, "uninitialized")
            /\ UNCHANGED context
       ELSE /\ context' = [context EXCEPT ![c] =
                              ContextOf(generated_frames, context_window)]
            /\ Goto(c, "encode")
            /\ UNCHANGED error
    /\ UNCHANGED <<sessvars, main_pc, initial_frames, message, action_id, action_latent, next_latents,
                   next_frames, frame, calls, connvars>>

\* step, lines 67-68: vt.tokenize(context), then get_latents_from_indices
Encode(c) ==
    /\ pc[c] = "encode"
    /\ Runnable(c)
    /\ calls' = [calls EXCEPT ![c] = Append(@, "tokenize")]
    /\ \E ok \in BOOLEAN :
          IF ok
          THEN Goto(c, "action") /\ UNCHANGED error
          ELSE Raise(c, "generation")
    /\ UNCHANGED <<sessvars, main_pc, initial_frames, message, action_id, hist0, context, action_latent,
                   next_latents, next_frames, frame, connvars>>

\* a step that looks the reduced id up whether or not there is an action model
ActionCondAlways(c) ==
    /\ pc[c] = "action"
    /\ Runnable(c)
    /\ action_latent' = [action_latent EXCEPT ![c] =
                             EffectiveAction(action_id[c], codebook_size)]
    /\ calls' = [calls EXCEPT ![c] = Append(@, "action_latent")]
    /\ \E ok \in BOOLEAN :
          IF ok THEN Goto(c, "predict") /\ UNCHANGED error
                ELSE Raise(c, "generation")
    /\ UNCHANGED <<sessvars, main_pc, initial_frames, message, action_id, hist0, context,
                   next_latents, next_frames, frame, connvars>>

\* step, lines 71-77: the action id is reduced and its latent looked up
ActionCond(c) ==
    /\ pc[c] = "action"
    /\ Runnable(c)
    /\ IF codebook_size > 0
       THEN /\ action_latent' = [action_latent EXCEPT ![c] =
                                    EffectiveAction(action_id[c], codebook_size)]
            /\ calls' = [calls EXCEPT ![c] = Append(@, "action_latent")]
            /\ \E ok \in BOOLEAN :
                  IF ok THEN Goto(c, "predict") /\ UNCHANGED error
                        ELSE Raise(c, "generation")
       ELSE /\ Goto(c, "predict")
            /\ UNCHANGED <<action_latent, calls, error>>
    /\ UNCHANGED <<sessvars, main_pc, initial_frames, message, action_id, hist0, context, next_latents,
                   next_frames, frame, connvars>>

\* a step that puts frames into the history before the latents are decoded
PredictStoring(c) ==
    /\ pc[c] = "predict"
    /\ Runnable(c)
    /\ calls' = [calls EXCEPT ![c] = Append(@, "forward_inference")]
    /\ generated_frames' = generated_frames \o context[c]
    /\ next_latents' = [next_latents EXCEPT ![c] = prediction_horizon]
    /\ Goto(c, "decode")
    /\ UNCHANGED <<context_window, prediction_horizon, codebook_size, has_frames,
                   main_pc, initial_frames, message, action_id, hist0, context,
                   action_latent, next_frames, frame, error, connvars>>

\* step, lines 82-91: dynamics.forward_inference; it returns the
\* prediction_horizon new latents, after the context's latents or alone
Predict(c) ==
    /\ pc[c] = "predict"
    /\ Runnable(c)
    /\ calls' = [calls EXCEPT ![c] = Append(@, "forward_inference")]
    /\ \E ok \in BOOLEAN, with_context \in BOOLEAN :
          IF ok
          THEN /\ next_latents' = [next_latents EXCEPT ![c] =
                     prediction_horizon + (IF with_context THEN Len(context[c]) ELSE 0)]
               /\ Goto(c, "decode")
               /\ UNCHANGED error
          ELSE /\ Raise(c, "generation")
               /\ UNCHANGED next_latents
    /\ UNCHANGED <<sessvars, main_pc, initial_frames, message, action_id, hist0, context, action_latent,
                   next_frames, frame, connvars>>

\* what detokenize returns for the latents of forward_inference: the new
\* frames nf, after the context's frames when its latents came first
Decoded(c, nf) ==
    IF next_latents[c] > prediction_horizon THEN context[c] \o nf ELSE nf

\* a decode that stores each frame as it decodes it, and fails after the first
DecodeStoring(c) ==
    /\ pc[c] = "decode"
    /\ Runnable(c)
    /\ calls' = [calls EXCEPT ![c] = Append(@, "detokenize")]
    /\ \E ok \in BOOLEAN, nf \in SeqsOfLen(FrameVals, prediction_horizon) :
          IF ok
          THEN /\ next_frames' = [next_frames EXCEPT ![c] = Decoded(c, nf)]
               /\ Goto(c, "commit")
               /\ UNCHANGED <<error, generated_frames>>
          ELSE /\ generated_frames' = Append(generated_frames, nf[1])
               /\ Raise(c, "generation")
               /\ UNCHANGED next_frames
    /\ UNCHANGED <<context_window, prediction_horizon, codebook_size, has_frames,
                   main_pc, initial_frames, message, action_id, hist0, context, action_latent,
                   next_latents, frame, connvars>>

\* step, line 93: vt.detokenize(next_latents)
Decode(c) ==
    /\ pc[c] = "decode"
    /\ Runnable(c)
    /\ calls' = [calls EXCEPT ![c] = Append(@, "detokenize")]
    /\ \E ok \in BOOLEAN, nf \in SeqsOfLen(FrameVals, prediction_horizon) :
          IF ok
          THEN /\ next_frames' = [next_frames EXCEPT ![c] = Decoded(c, nf)]
               /\ Goto(c, "commit")
               /\ UNCHANGED error
          ELSE /\ Raise(c, "generation")
               /\ UNCHANGED next_frames
    /\ UNCHANGED <<sessvars, main_pc, initial_frames, message, action_id, hist0, context, action_latent,
                   next_latents, frame, connvars>>

\* step, lines 94-96: the history takes the new frames
Commit(c) ==
    /\ pc[c] = "commit"
    /\ Runnable(c)
    /\ generated_frames' =
          Appended(generated_frames, next_frames[c], prediction_horizon)
    /\ Goto(c, "convert")
    /\ UNCHANGED <<context_window, prediction_horizon, codebook_size, has_frames,
                   main_pc, initial_frames, stepvars, connvars>>

\* a step that returns the first frame it predicted
ConvertFirstPredicted(c) ==
    /\ pc[c] = "convert"
    /\ Runnable(c)
    /\ frame' = [frame EXCEPT ![c] =
                     ToDisplay(next_frames[c][Len(next_frames[c]) - prediction_horizon + 1])]
    /\ Goto(c, "returned")
    /\ UNCHANGED <<sessvars, main_pc, initial_frames, message, action_id, hist0, context,
                   action_latent, next_latents, next_frames, error, calls, connvars>>

\* step, lines 99-101: the last frame is converted and returned
Convert(c) ==
    /\ pc[c] = "convert"
    /\ Runnable(c)
    /\ frame' = [frame EXCEPT ![c] = ToDisplay(next_frames[c][Len(next_frames[c])])]
    /\ Goto(c, "returned")
    /\ UNCHANGED <<sessvars, main_pc, initial_frames, message, action_id, hist0, context, action_latent,
                   next_latents, next_frames, error, calls, connvars>>

StepAction(c) ==
    \/ StepCheck(c)
    \/ Encode(c)
    \/ ActionCond(c)
    \/ Predict(c)
    \/ Decode(c)
    \/ Commit(c)
    \/ Convert(c)
\* --------------------------------------------------- a direct caller
\* The session used through its two methods by one caller, task 1, in any
\* order: what the class does for every caller, the server included.
ApiCallInit ==
    /\ main_pc = "api"
    /\ pc[1] = "api"
    /\ \E frames \in SeqsUpTo(FrameVals, MaxW) : initial_frames' = frames
    /\ hist0' = [hist0 EXCEPT ![1] = generated_frames]
    /\ Goto(1, "init")
    /\ UNCHANGED <<sessvars, main_pc, message, action_id, context, action_latent,
                   next_latents, next_frames, frame, error, calls, connvars>>

ApiSetInitialContext ==
    /\ main_pc = "api"
    /\ pc[1] = "init"
    /\ Runnable(1)
    /\ SetInitialContext(initial_frames)
    /\ Goto(1, "init_returned")
    /\ UNCHANGED <<main_pc, initial_frames, stepvars, connvars>>

ApiCallStep ==
    /\ main_pc = "api"
    /\ pc[1] = "api"
    /\ Len(generated_frames) + prediction_horizon <= MaxHist
    /\ \E a \in ActionIds : action_id' = [action_id EXCEPT ![1] = a]
    /\ Goto(1, "enter")
    /\ UNCHANGED <<sessvars, main_pc, initial_frames, message, hist0, context,
                   action_latent, next_latents, next_frames, frame, error, calls,
                   connvars>>

ApiReturn ==
    /\ main_pc = "api"
    /\ pc[1] \in {"returned", "raised", "init_returned"}
    /\ Runnable(1)
    /\ ClearedLocals(1)
    /\ error' = [error EXCEPT ![1] = ""]
    /\ frame' = [frame EXCEPT ![1] = NoFrame]
    /\ initial_frames' = <<>>
    /\ Goto(1, "api")
    /\ UNCHANGED <<sessvars, main_pc, connvars>>

\* ------------------------------------------------------- the server
\* a main that serves without seeding the session
MainWithoutInitialContext ==
    /\ main_pc = "construct"
    /\ main_pc' = "serving"
    /\ UNCHANGED <<sessvars, initial_frames, loop, pc, stepvars, connvars>>

\* main, lines 169-175: the loader gives context_window frames
MainSetInitialContext ==
    /\ main_pc = "construct"
    /\ \E frames \in SeqsOfLen(FrameVals, context_window) :
          /\ initial_frames' = frames
          /\ SetInitialContext(frames)
    /\ main_pc' = "serving"
    /\ UNCHANGED <<loop, pc, stepvars, connvars>>

\* main, lines 180-185: websockets.serve starts handle_client(ws, session)
\* for each connection, every one with the one session of line 161
Accept(c) ==
    /\ main_pc = "serving"
    /\ pc[c] = "idle"
    /\ loop = 0
    /\ open' = [open EXCEPT ![c] = TRUE]
    /\ Goto(c, "recv")
    /\ UNCHANGED <<sessvars, main_pc, initial_frames, stepvars, inbox, closed, sent,
                   started, msgs_left>>

\* what a client may send
MsgKinds == {"notjson", "notobject", "badaction", "noaction", "action"}
\* json.loads raises, data.get is no method of the value, int() raises
MalformedButBadAction == {"notjson", "notobject"}
Malformed == {"notjson", "notobject", "badaction"}
\* the action ids the clients of the server send: below, inside and above
\* the codebook's range
ClientActionIds == {-1, 0, MaxN + 1}
Messages ==
    {[kind |-> k, action |-> 0] : k \in MsgKinds \ {"action"}}
        \cup {[kind |-> "action", action |-> a] : a \in ClientActionIds}

\* a message as the connection holds it: seq numbers the messages of all
\* connections in the order of their arrival
Stamped(m, n) == [kind |-> m.kind, action |-> m.action, seq |-> n]

\* the message itself, without the number of its arrival
TextOf(m) == [kind |-> m.kind, action |-> m.action]

\* a handler whose default action is 1
ActionOfDefaultOne(m) == IF m.kind = "action" THEN m.action ELSE 1

\* int(data.get("action", 0))
ActionOf(m) == IF m.kind = "action" THEN m.action ELSE 0

\* async for message in websocket: the oldest message the connection holds
NewestMessage(q) == q[Len(q)]
NextMessage(q) == Head(q)
RestMessages(q) == Tail(q)

\* A message arrives on the connection.  A handler's synchronous code reads
\* neither the connection's messages nor its state, so an arrival during
\* it is the same as one at its next await.
ClientSend(c) ==
    /\ loop = 0
    /\ open[c]
    /\ pc[c] \notin {"idle", "done"}
    /\ Len(inbox[c]) < MaxInbox
    /\ msgs_left > 0
    /\ msgs_left' = msgs_left - 1
    /\ \E m \in Messages :
          inbox' = [inbox EXCEPT ![c] = Append(@, Stamped(m, MaxMsgs - msgs_left + 1))]
    /\ UNCHANGED <<sessvars, main_pc, initial_frames, loop, pc, stepvars, open, closed,
                   sent, started>>

\* The client closes the connection, at any moment: while its handler
\* awaits, and while a handler's synchronous code runs.
ClientClose(c) ==
    /\ open[c]
    /\ pc[c] \notin {"idle", "done"}
    /\ open' = [open EXCEPT ![c] = FALSE]
    /\ UNCHANGED <<sessvars, main_pc, initial_frames, loop, pc, stepvars, inbox, closed,
                   sent, started, msgs_left>>

\* The event loop reads the close of a connection.  It reads it when no
\* task holds it: a handler that awaits with nothing to wait for (a send
\* with room in the buffer, a message already buffered) may go on before
\* the loop has read it.
LoopSeesClose(c) ==
    /\ loop = 0
    /\ pc[c] \notin {"idle", "done"}
    /\ ~open[c]
    /\ ~closed[c]
    /\ closed' = [closed EXCEPT ![c] = TRUE]
    /\ UNCHANGED <<sessvars, main_pc, initial_frames, loop, pc, stepvars, inbox, open,
                   sent, started, msgs_left>>

\* handle_client, lines 114-117: the next message is taken, parsed and
\* step is called, also for a message buffered before the close; the loop
\* ends when the connection is closed and holds no message
Recv(c) ==
    /\ pc[c] = "recv"
    /\ Runnable(c)
    /\ IF inbox[c] # <<>>
       THEN LET m == NextMessage(inbox[c])
            IN  /\ message' = [message EXCEPT ![c] = TextOf(m)]
                /\ inbox' = [inbox EXCEPT ![c] = RestMessages(@)]
                /\ IF m.kind \in Malformed
                   THEN /\ Raise(c, "malformed")
                        /\ UNCHANGED <<action_id, started>>
                   ELSE /\ action_id' = [action_id EXCEPT ![c] = ActionOf(m)]
                        /\ started' = [started EXCEPT ![c] = @ + 1]
                        /\ Goto(c, "enter")
                        /\ UNCHANGED error
       ELSE /\ closed[c]
            /\ Goto(c, "done")
            /\ UNCHANGED <<inbox, message, action_id, error, started>>
    /\ UNCHANGED <<sessvars, main_pc, initial_frames, hist0, context, action_latent,
                   next_latents, next_frames, frame, calls, open, closed, sent,
                   msgs_left>>

\* handle_client, lines 118-119: the frame is encoded and send is called,
\* which raises when the event loop has read the connection's close
HandlerPng(c) ==
    /\ main_pc = "serving"
    /\ pc[c] = "returned"
    /\ Runnable(c)
    /\ ClearedLocals(c)
    /\ IF closed[c]
       THEN Raise(c, "closed")
       ELSE Goto(c, "send") /\ UNCHANGED error
    /\ UNCHANGED <<sessvars, main_pc, initial_frames, frame, connvars>>

\* handle_client, line 119: the send that was begun completes
SendDone(c) ==
    /\ pc[c] = "send"
    /\ Runnable(c)
    /\ frame' = [frame EXCEPT ![c] = NoFrame]
    /\ sent' = [sent EXCEPT ![c] = Append(@, frame[c])]
    /\ Goto(c, "recv")
    /\ UNCHANGED <<sessvars, main_pc, initial_frames, message, action_id, hist0, context,
                   action_latent, next_latents, next_frames, error, calls, inbox,
                   open, closed, started, msgs_left>>

\* handle_client, lines 120-123: any exception ends the handler, and
\* websockets closes the connection when the handler returns; error keeps
\* what ended it
HandlerExceptResume(c) ==
    /\ main_pc = "serving"
    /\ pc[c] = "raised"
    /\ Runnable(c)
    /\ ClearedLocals(c)
    /\ frame' = [frame EXCEPT ![c] = NoFrame]
    /\ Goto(c, "recv")
    /\ UNCHANGED <<sessvars, main_pc, initial_frames, error, inbox, open, closed, sent,
                   started, msgs_left>>

\* a handler that calls step again for the message whose step failed
HandlerExceptRetrying(c) ==
    /\ main_pc = "serving"
    /\ pc[c] = "raised"
    /\ Runnable(c)
    /\ IF error[c] = "generation"
       THEN /\ Goto(c, "enter")
            /\ UNCHANGED <<message, action_id, hist0, context, action_latent,
                           next_latents, next_frames, calls, open>>
       ELSE /\ ClearedLocals(c)
            /\ open' = [open EXCEPT ![c] = FALSE]
            /\ Goto(c, "done")
    /\ frame' = [frame EXCEPT ![c] = NoFrame]
    /\ UNCHANGED <<sessvars, main_pc, initial_frames, error, inbox, closed, sent,
                   started, msgs_left>>

\* a handler whose failure closes every connection
HandlerExceptClosingAll(c) ==
    /\ main_pc = "serving"
    /\ pc[c] = "raised"
    /\ Runnable(c)
    /\ ClearedLocals(c)
    /\ frame' = [frame EXCEPT ![c] = NoFrame]
    /\ open' = [b \in Tasks |-> FALSE]
    /\ Goto(c, "done")
    /\ UNCHANGED <<sessvars, main_pc, initial_frames, error, inbox, closed, sent,
                   started, msgs_left>>

\* a handler that seeds the session anew when a message fails
HandlerExceptReseeding(c) ==
    /\ main_pc = "serving"
    /\ pc[c] = "raised"
    /\ Runnable(c)
    /\ ClearedLocals(c)
    /\ SetInitialContext(initial_frames)
    /\ frame' = [frame EXCEPT ![c] = NoFrame]
    /\ open' = [open EXCEPT ![c] = FALSE]
    /\ Goto(c, "done")
    /\ UNCHANGED <<main_pc, initial_frames, error, inbox, closed, sent, started,
                   msgs_left>>

HandlerExcept(c) ==
    /\ main_pc = "serving"
    /\ pc[c] = "raised"
    /\ Runnable(c)
    /\ ClearedLocals(c)
    /\ frame' = [frame EXCEPT ![c] = NoFrame]
    /\ open' = [open EXCEPT ![c] = FALSE]
    /\ Goto(c, "done")
    /\ UNCHANGED <<sessvars, main_pc, initial_frames, error, inbox, closed, sent,
                   started, msgs_left>>

\* --------------------------------------------------- specifications
Configs ==
    /\ context_window \in 1 .. MaxW
    /\ prediction_horizon \in 1 .. MaxH
    /\ codebook_size \in 0 .. MaxN

NoLocals ==
    /\ message = [c \in Tasks |-> NoMessage]
    /\ action_id = [c \in Tasks |-> 0]
    /\ hist0 = [c \in Tasks |-> <<>>]
    /\ context = [c \in Tasks |-> <<>>]
    /\ action_latent = [c \in Tasks |-> NoLookup]
    /\ next_latents = [c \in Tasks |-> 0]
    /\ next_frames = [c \in Tasks |-> <<>>]
    /\ frame = [c \in Tasks |-> NoFrame]
    /\ error = [c \in Tasks |-> ""]
    /\ calls = [c \in Tasks |-> <<>>]

NoConns ==
    /\ inbox = [c \in Tasks |-> <<>>]
    /\ open = [c \in Tasks |-> FALSE]
    /\ sent = [c \in Tasks |-> <<>>]
    /\ started = [c \in Tasks |-> 0]
    /\ closed = [c \in Tasks |-> FALSE]

\* the state after GenieInferenceSession(...) of main, line 161
Init ==
    /\ Configs
    /\ codebook_size \in {0, MaxN}
    /\ has_frames = FALSE
    /\ generated_frames = <<>>
    /\ main_pc = "construct"
    /\ initial_frames = <<>>
    /\ loop = 0
    /\ pc = [c \in Tasks |-> "idle"]
    /\ NoLocals
    /\ NoConns
    /\ msgs_left = MaxMsgs

Next ==
    \/ MainSetInitialContext
    \/ \E c \in Tasks :
          \/ Accept(c)
          \/ ClientSend(c)
          \/ ClientClose(c)
          \/ LoopSeesClose(c)
          \/ Recv(c)
          \/ StepAction(c)
          \/ HandlerPng(c)
          \/ SendDone(c)
          \/ HandlerExcept(c)

Spec == Init /\ [][Next]_vars

\* the session after construction, in the hands of a direct caller
InitSession ==
    /\ Configs
    /\ has_frames = FALSE
    /\ generated_frames = <<>>
    /\ main_pc = "api"
    /\ initial_frames = <<>>
    /\ loop = 0
    /\ pc = [c \in Tasks |-> IF c = 1 THEN "api" ELSE "idle"]
    /\ NoLocals
    /\ NoConns
    /\ msgs_left = 0

NextSession ==
    \/ ApiCallInit
    \/ ApiSetInitialContext
    \/ ApiCallStep
    \/ StepAction(1)
    \/ ApiReturn

SpecSession == InitSession /\ [][NextSession]_vars

\* a step of a direct caller that has just stored its frames: the decoded
\* frame holds any pixel value
InitPixel ==
    /\ context_window = 1
    /\ prediction_horizon = 1
    /\ codebook_size = 0
    /\ has_frames = TRUE
    /\ main_pc = "api"
    /\ initial_frames = <<>>
    /\ loop = 1
    /\ pc = [c \in Tasks |-> IF c = 1 THEN "convert" ELSE "idle"]
    /\ \E seed \in FrameVals, v \in PixelVals :
          /\ generated_frames = <<seed, v>>
          /\ hist0 = [c \in Tasks |-> IF c = 1 THEN <<seed>> ELSE <<>>]
          /\ context = [c \in Tasks |-> IF c = 1 THEN <<seed>> ELSE <<>>]
          /\ next_frames = [c \in Tasks |-> IF c = 1 THEN <<v>> ELSE <<>>]
    /\ message = [c \in Tasks |-> NoMessage]
    /\ action_id = [c \in Tasks |-> 0]
    /\ action_latent = [c \in Tasks |-> NoLookup]
    /\ next_latents = [c \in Tasks |-> IF c = 1 THEN 1 ELSE 0]
    /\ frame = [c \in Tasks |-> NoFrame]
    /\ error = [c \in Tasks |-> ""]
    /\ calls = [c \in Tasks |->
                   IF c = 1 THEN <<"tokenize", "forward_inference", "detokenize">>
                   ELSE <<>>]
    /\ NoConns
    /\ msgs_left = 0

NextPixel ==
    \/ Convert(1)
    \/ ApiReturn

SpecPixel == InitPixel /\ [][NextPixel]_vars
\* ------------------------------------------------------------ claims
\* positions at which the task's step has passed its None check
AfterCheck == (StepPcs \ {"enter"}) \cup {"returned", "raised"}
\* positions at which the task's step has passed the action conditioning
AfterAction == {"predict", "decode", "commit", "convert", "returned"}
\* the frame a returned step converted
LastDecoded(c) == next_frames[c][Len(next_frames[c])]

\* C1: every successful step leaves the history exactly prediction_horizon
\* frames longer than it found it, and no step, at any point of its run and
\* whether it returns or raises, leaves it shorter.
C1_HistoryGrowsByH ==
    \A c \in Tasks :
        /\ pc[c] = "returned" =>
              Len(generated_frames) = Len(hist0[c]) + prediction_horizon
        /\ pc[c] \in AfterCheck => Len(generated_frames) >= Len(hist0[c])

C1_Witness ==
    /\ pc[1] = "returned"
    /\ prediction_horizon = 2
    /\ next_latents[1] > prediction_horizon
    /\ Len(hist0[1]) = 2
    /\ Len(generated_frames) = 4

\* C2: whenever the history holds at least context_window frames, the
\* context the step encodes and hands on has exactly context_window frames,
\* the most recent ones of the history in their order.
C2_ContextIsLastW ==
    \A c \in Tasks :
        (pc[c] \in AfterCheck /\ (pc[c] = "encode" \/ calls[c] # <<>>)
            /\ Len(hist0[c]) >= context_window) =>
            /\ Len(context[c]) = context_window
            /\ \A i \in 1 .. context_window :
                  context[c][i] = hist0[c][Len(hist0[c]) - context_window + i]

C2_Witness ==
    /\ pc[1] = "decode"
    /\ context_window = 2
    /\ Len(hist0[1]) = 3
    /\ hist0[1][1] # hist0[1][3]
    /\ context[1] = <<hist0[1][2], hist0[1][3]>>

\* C3: when a gateway call of a step raises, the history is the history the
\* step found: no frame of the step, and no part of its frames, is in it.
C3_FailureLeavesHistory ==
    \A c \in Tasks :
        (pc[c] = "raised" /\ error[c] = "generation") =>
            generated_frames = hist0[c]

C3_Witness ==
    /\ pc[1] = "raised"
    /\ error[1] = "generation"
    /\ calls[1][Len(calls[1])] = "detokenize"
    /\ prediction_horizon = 2
    /\ Len(generated_frames) = 2

\* C4: with a codebook of size N, the id a step looks up for action a is
\* the id a step looks up for a + k * N, for every integer k.
C4_LookupPeriodic ==
    \A c \in Tasks :
        (codebook_size > 0 /\ action_latent[c] # NoLookup) =>
            \A k \in (-MaxAction) .. MaxAction :
                EffectiveAction(action_id[c] + k * codebook_size, codebook_size)
                    = action_latent[c]

C4_Witness ==
    /\ pc[1] = "returned"
    /\ codebook_size = 3
    /\ action_id[1] = 4
    /\ action_latent[1] = 1

\* C5: with a codebook of size N, every step that gets past encoding looks
\* up an id in 0 .. N-1 that is congruent to the action modulo N, the action
\* itself when it is in range; no step is rejected for the action's range.
C5_LookupIsModulo ==
    \A c \in Tasks :
        codebook_size > 0 =>
            /\ pc[c] \in AfterAction =>
                  /\ Len(calls[c]) >= 2
                  /\ calls[c][2] = "action_latent"
            /\ error[c] \in {"", "uninitialized", "generation", "malformed", "closed"}
            /\ action_latent[c] # NoLookup =>
                  /\ action_latent[c] \in 0 .. (codebook_size - 1)
                  /\ \E k \in (-MaxAction - 1) .. (MaxAction + 1) :
                        action_id[c] = action_latent[c] + k * codebook_size
                  /\ action_id[c] \in 0 .. (codebook_size - 1) =>
                        action_latent[c] = action_id[c]

C5_Witness ==
    /\ pc[1] = "returned"
    /\ codebook_size = 3
    /\ action_id[1] = -1
    /\ action_latent[1] = 2

\* C6: the value step returns for a pixel is an integer in 0 .. 255: 0 for
\* -1 and everything below it, 255 for 1 and everything above it.
C6_DisplaySaturates ==
    \A c \in Tasks :
        pc[c] = "returned" =>
            /\ frame[c] \in 0 .. DisplayMax
            /\ LastDecoded(c) <= -PixDen => frame[c] = 0
            /\ LastDecoded(c) >= PixDen => frame[c] = DisplayMax

C6_Witness ==
    /\ pc[1] = "returned"
    /\ LastDecoded(1) = 2 * PixDen
    /\ frame[1] = DisplayMax

\* C7: the value step returns for a pixel v is
\* clamp(round((v + 1) * 127.5), 0, 255): the scaled value rounded to the
\* nearest integer.
C7_DisplayIsRounded ==
    \A c \in Tasks :
        pc[c] = "returned" => frame[c] = RoundedDisplay(LastDecoded(c))

\* C8: a step on a session whose set_initial_context was never called
\* raises the uninitialized-session error before any gateway call, returns
\* no frame and leaves the history unset.
C8_UninitializedStepRaises ==
    \A c \in Tasks :
        (~has_frames /\ pc[c] \in AfterCheck) =>
            /\ pc[c] = "raised"
            /\ error[c] = "uninitialized"
            /\ calls[c] = <<>>
            /\ frame[c] = NoFrame
            /\ generated_frames = <<>>

C8_Witness ==
    /\ pc[1] = "raised"
    /\ error[1] = "uninitialized"
    /\ ~has_frames

\* C9: at every instant at most one handler is inside step, and it is the
\* one holding the event loop: two steps never overlap in a gateway, and no
\* step starts while another has not completed.
C9_OneStepAtATime ==
    /\ Cardinality({c \in Tasks : pc[c] \in StepPcs}) <= 1
    /\ \A c \in Tasks : pc[c] \in StepPcs => loop = c

C9_Witness ==
    /\ pc[1] = "predict"
    /\ pc[2] = "recv"
    /\ inbox[2] # <<>>
    /\ Head(inbox[2]).kind = "action"

\* C10: every connection has a session of its own: the history a
\* connection's step starts from holds the seed frames and the frames of
\* that connection's own earlier steps, and nothing another connection's
\* action produced.
C10_OwnHistory ==
    \A c \in Tasks :
        pc[c] \in (StepPcs \ {"enter"}) =>
            Len(hist0[c]) = context_window + prediction_horizon * Len(sent[c])

\* C11: on each connection the actions are stepped in the order their
\* messages were received, one frame each: a step starts with the oldest
\* message the connection holds, only when every earlier step's frame has
\* been sent, and the k-th frame sent is the frame returned by the k-th step.
C11_InOrderOneFrameEach ==
    [][\A c \in Tasks :
          /\ (pc[c] = "recv" /\ pc'[c] = "enter") =>
                /\ inbox[c] # <<>>
                /\ \A i \in 1 .. Len(inbox[c]) : inbox[c][1].seq <= inbox[c][i].seq
                /\ action_id'[c] = ActionOf(inbox[c][1])
                /\ inbox'[c] = Tail(inbox[c])
                /\ Len(sent[c]) = started[c]
                /\ started'[c] = started[c] + 1
          /\ (inbox'[c] # inbox[c] /\ pc'[c] = pc[c]) =>
                /\ Len(inbox'[c]) = Len(inbox[c]) + 1
                /\ SubSeq(inbox'[c], 1, Len(inbox[c])) = inbox[c]
                /\ \A i \in 1 .. Len(inbox[c]) :
                      inbox[c][i].seq < inbox'[c][Len(inbox'[c])].seq
          /\ sent'[c] # sent[c] =>
                /\ pc[c] = "send"
                /\ frame[c] # NoFrame
                /\ sent'[c] = Append(sent[c], frame[c])
                /\ Len(sent'[c]) = started[c]
          /\ (pc[c] \in StepPcs \cup {"returned"} /\ pc'[c] \notin {"raised", "done"}) =>
                /\ action_id'[c] = action_id[c] \/ pc'[c] = "send"
                /\ started'[c] = started[c]
                /\ sent'[c] = sent[c]
          /\ pc'[c] = "send" => frame'[c] = frame[c]
      ]_vars

C11_Witness ==
    /\ Len(sent[1]) = 2
    /\ started[1] = 2
    /\ pc[1] = "recv"

\* C12: a message that is not JSON, not a JSON object, or whose action is
\* no integer never advances the session: taking it and handling it call no
\* gateway, return no frame and leave the session's history as it was.
C12_MalformedLeavesSession ==
    [][\A c \in Tasks :
          /\ (/\ pc[c] = "recv"
              /\ pc'[c] # "recv"
              /\ inbox[c] # <<>>
              /\ inbox[c][1].kind \in {"notjson", "notobject", "badaction"}) =>
                /\ pc'[c] = "raised"
                /\ error'[c] = "malformed"
                /\ started'[c] = started[c]
                /\ generated_frames' = generated_frames
                /\ has_frames' = has_frames
          /\ (pc[c] = "raised" /\ error[c] = "malformed") =>
                /\ calls[c] = <<>>
                /\ frame[c] = NoFrame
                /\ calls'[c] = <<>>
                /\ frame'[c] = NoFrame
                /\ pc'[c] \notin StepPcs
                /\ generated_frames' = generated_frames
                /\ has_frames' = has_frames
      ]_vars

C12_Witness ==
    /\ pc[1] = "raised"
    /\ error[1] = "malformed"
    /\ Len(generated_frames) > context_window
    /\ Len(sent[1]) = 1

\* C13: after a malformed message the connection remains open: the message
\* alone is dropped, the handler does not end because of it, and no message
\* that arrived on the connection is left unanswered by an ended handler.
C13_MalformedKeepsConnection ==
    \A c \in Tasks :
        error[c] = "malformed" => pc[c] # "done"

\* C14: when a gateway call of a step fails, no frame is sent for that
\* action and the connection is torn down: the handler ends, the connection
\* is closed, and an ended handler takes no further message of it.
C14_GatewayFailureEndsHandler ==
    [][\A c \in Tasks :
          /\ (pc[c] \in GatewayPcs /\ pc'[c] = "raised") =>
                /\ error'[c] = "generation"
                /\ frame'[c] = NoFrame
                /\ sent'[c] = sent[c]
          /\ (pc[c] = "raised" /\ error[c] = "generation") =>
                /\ frame[c] = NoFrame
                /\ Len(sent[c]) = started[c] - 1
                /\ sent'[c] = sent[c]
                /\ pc'[c] # pc[c] => (pc'[c] = "done" /\ ~open'[c])
          /\ pc[c] = "done" =>
                /\ pc'[c] = "done"
                /\ ~open'[c]
                /\ inbox'[c] = inbox[c]
                /\ sent'[c] = sent[c]
                /\ started'[c] = started[c]
      ]_vars

C14_Witness ==
    /\ pc[1] = "done"
    /\ error[1] = "generation"
    /\ inbox[1] # <<>>
    /\ Len(sent[1]) = 0
    /\ started[1] = 1

\* C15: a generation error is fatal to the session: once a step on the
\* session has failed inside a gateway, no step is executed on it and no
\* frame is returned from it any more, whichever connection asks.
C15_FailedSessionNeverSteps ==
    \A c \in Tasks :
        error[c] = "generation" =>
            \A b \in Tasks : pc[b] \notin (StepPcs \cup {"returned", "send"})

\* the frames sent on the connections 1 .. n
RECURSIVE FramesSent(_)
FramesSent(n) == IF n = 0 THEN 0 ELSE Len(sent[n]) + FramesSent(n - 1)

\* the steps that have appended their frames and whose frame is on its way
\* to the client
FramesUnderway == Cardinality({c \in Tasks : pc[c] \in {"convert", "returned", "send"}})

\* C16: a step is atomic with respect to the history: the history holds the
\* seed and the frames of the steps whose frame was delivered or is being
\* delivered, and none of a step that failed, be it after decoding (in the
\* conversion, the image encoding or the send).
C16_HistoryOnlyOfDelivered ==
    main_pc = "serving" =>
        Len(generated_frames) =
            context_window
                + prediction_horizon * (FramesSent(MaxConns) + FramesUnderway)

\* the frames sent on those of the connections 1 .. n whose handler has not ended
RECURSIVE FramesSentLive(_)
FramesSentLive(n) ==
    IF n = 0 THEN 0
    ELSE (IF pc[n] = "done" THEN 0 ELSE Len(sent[n])) + FramesSentLive(n - 1)

\* C17: a session lives as long as its connection: the history a step
\* starts from holds, besides the seed, only frames generated through
\* connections that are still there, none generated through a connection
\* that has closed or failed.
C17_NoFramesOfClosedConnection ==
    \A b \in Tasks :
        pc[b] \in (StepPcs \ {"enter"}) =>
            Len(hist0[b]) <=
                context_window
                    + prediction_horizon * (FramesSentLive(MaxConns) + FramesUnderway)

\* C18: when the client disconnects while its step is in flight, the step
\* is not preempted: the close changes nothing of the step, which leaves
\* step only by returning or by an error of its own; the result of a step
\* that returns on a disconnected connection is discarded, not sent.
C18_CloseDuringStep ==
    [][\A c \in Tasks :
          /\ (pc[c] \in StepPcs /\ open[c] /\ ~open'[c]) =>
                UNCHANGED <<sessvars, loop, pc, stepvars>>
          /\ (pc[c] \in StepPcs /\ pc'[c] # pc[c]) =>
                \/ pc'[c] \in StepPcs \cup {"returned"}
                \/ pc'[c] = "raised" /\ error'[c] \in {"generation", "uninitialized"}
          /\ (pc[c] = "returned" /\ ~open[c] /\ pc'[c] # pc[c]) =>
                /\ pc'[c] = "raised"
                /\ error'[c] = "closed"
                /\ sent'[c] = sent[c]
      ]_vars

\* C19: across the connections, steps are executed in the order in which
\* their actions arrived: when a handler starts the step of a message, no
\* other handler is waiting with an action that arrived before it.
C19_FifoAcrossConnections ==
    [][\A c \in Tasks :
          (pc[c] = "recv" /\ pc'[c] = "enter") =>
              \A b \in Tasks \ {c} :
                  (/\ pc[b] = "recv"
                   /\ inbox[b] # <<>>
                   /\ inbox[b][1].kind \in {"action", "noaction"}) =>
                      inbox[c][1].seq < inbox[b][1].seq
      ]_vars

\* C20: set_initial_context(frames), in any state of the session, makes the
\* history exactly the given frames and calls no gateway: frames generated
\* by earlier steps are gone, and on a session that already holds exactly
\* these frames the call changes nothing.
C20_InitSetsSeed ==
    [][(pc[1] = "init" /\ pc'[1] = "init_returned") =>
          /\ generated_frames' = initial_frames
          /\ has_frames'
          /\ UNCHANGED <<context_window, prediction_horizon, codebook_size>>
          /\ calls'[1] = <<>>
          /\ frame'[1] = NoFrame
          /\ (has_frames /\ generated_frames = initial_frames) =>
                UNCHANGED sessvars
      ]_vars

C20_Witness ==
    /\ pc[1] = "init_returned"
    /\ Len(hist0[1]) > context_window
    /\ Len(hist0[1]) > Len(initial_frames)
    /\ initial_frames # <<>>
    /\ generated_frames = initial_frames

\* C21: no client message resets or replaces the history: once the server
\* is serving, the history is set and changes only when a step appends its
\* frames to it, whatever the clients send.
C21_ServingHistoryOnlyAppended ==
    [][main_pc = "serving" =>
          /\ has_frames /\ has_frames'
          /\ generated_frames' # generated_frames =>
                /\ \E c \in Tasks : pc[c] = "commit" /\ pc'[c] = "convert"
                /\ Len(generated_frames') > Len(generated_frames)
                /\ SubSeq(generated_frames', 1, Len(generated_frames)) = generated_frames
      ]_vars

C21_Witness ==
    /\ main_pc = "serving"
    /\ pc[1] = "raised"
    /\ message[1].kind = "notobject"
    /\ started[1] = 1
    /\ generated_frames # initial_frames
    /\ SubSeq(generated_frames, 1, Len(initial_frames)) = initial_frames

\* C22: a message without an action field is processed as a message with
\* action id 0: step receives the id 0, the id that reaches the action
\* lookup is the one of action 0, and the history grows by the same frames.
C22_NoActionIsActionZero ==
    \A c \in Tasks :
        (message[c].kind = "noaction" /\ pc[c] \in StepPcs \cup {"returned"}) =>
            /\ action_id[c] = ActionOf([kind |-> "action", action |-> 0])
            /\ action_id[c] = 0
            /\ (pc[c] \in AfterAction /\ codebook_size > 0) =>
                  action_latent[c] = EffectiveAction(0, codebook_size)
            /\ pc[c] \in {"convert", "returned"} =>
                  Len(generated_frames) = Len(hist0[c]) + prediction_horizon

C22_Witness ==
    /\ message[1].kind = "noaction"
    /\ pc[1] = "returned"
    /\ codebook_size > 0
    /\ action_latent[1] = 0
    /\ calls[1] = <<"tokenize", "action_latent", "forward_inference", "detokenize">>

\* how many of the gateway calls of a message are calls of g
CallsOf(c, g) == Cardinality({i \in 1 .. Len(calls[c]) : calls[c][i] = g})

\* C23: without an action model a step, whatever the action id, looks up
\* no action latent and calls the dynamics model with no conditioning; with
\* an action model a step looks up exactly one action latent, the one of
\* the reduced id, and calls the dynamics model with it.
C23_ConditioningFollowsActionModel ==
    [][\A c \in Tasks :
          /\ pc'[c] \in AfterAction =>
                /\ codebook_size = 0 =>
                      (action_latent'[c] = NoLookup /\ CallsOf(c, "action_latent")' = 0)
                /\ codebook_size > 0 =>
                      /\ action_latent'[c] = EffectiveAction(action_id'[c], codebook_size)
                      /\ CallsOf(c, "action_latent")' = 1
          /\ (pc[c] = "predict" /\ pc'[c] # "predict") =>
                /\ action_latent'[c] = action_latent[c]
                /\ CallsOf(c, "forward_inference")' = 1
                /\ CallsOf(c, "action_latent")' = CallsOf(c, "action_latent")
      ]_vars

C23_Witness ==
    /\ pc[1] = "returned"
    /\ codebook_size = 0
    /\ action_id[1] = MaxAction
    /\ action_latent[1] = NoLookup
    /\ calls[1] = <<"tokenize", "forward_inference", "detokenize">>

\* C24: for every window size W and history length L the context of a step
\* has exactly min(W, L) frames: a history shorter than W does not make the
\* step fail at the slice, all its frames are used, and the context never
\* has more than W frames.
C24_ContextHasMinFrames ==
    [][\A c \in Tasks :
          (pc[c] = "enter" /\ pc'[c] # "enter" /\ has_frames) =>
              /\ pc'[c] = "encode"
              /\ Len(context'[c]) = Min(context_window, Len(generated_frames))
              /\ Len(context'[c]) <= context_window
              /\ Len(generated_frames) < context_window =>
                    context'[c] = generated_frames
      ]_vars

C24_Witness ==
    /\ pc[1] = "encode"
    /\ context_window = 2
    /\ Len(hist0[1]) = 1
    /\ context[1] = hist0[1]

\* C25: step only appends to the history: after a successful step the
\* history the step found is an unchanged prefix of the history, and what
\* follows it are the prediction_horizon predicted frames in the order of
\* the prediction.
C25_HistoryAppendOnly ==
    \A c \in Tasks :
        pc[c] \in {"convert", "returned"} =>
            /\ Len(generated_frames) = Len(hist0[c]) + prediction_horizon
            /\ SubSeq(generated_frames, 1, Len(hist0[c])) = hist0[c]
            /\ \A i \in 1 .. prediction_horizon :
                  generated_frames[Len(hist0[c]) + i] =
                      next_frames[c][Len(next_frames[c]) - prediction_horizon + i]

C25_Witness ==
    /\ pc[1] = "returned"
    /\ prediction_horizon = 2
    /\ Len(hist0[1]) = 2
    /\ hist0[1][1] # hist0[1][2]
    /\ generated_frames[3] # generated_frames[4]
    /\ generated_frames[3] # generated_frames[1]

\* C26: the frame a successful step returns is the display conversion of the
\* last frame this step appended to the history: with a prediction horizon
\* above 1 the step appends all its frames and returns the most recent one.
C26_ReturnsLastAppended ==
    \A c \in Tasks :
        pc[c] = "returned" =>
            /\ Len(generated_frames) = Len(hist0[c]) + prediction_horizon
            /\ frame[c] = ToDisplay(generated_frames[Len(generated_frames)])

C26_Witness ==
    /\ pc[1] = "returned"
    /\ prediction_horizon = 2
    /\ Len(generated_frames) = Len(hist0[1]) + 2
    /\ frame[1] = ToDisplay(generated_frames[Len(generated_frames)])
    /\ frame[1] # ToDisplay(generated_frames[Len(generated_frames) - 1])

\* the gateway calls of a whole step, in the order of the code
StepCalls ==
    IF codebook_size > 0
    THEN <<"tokenize", "action_latent", "forward_inference", "detokenize">>
    ELSE <<"tokenize", "forward_inference", "detokenize">>

\* C27: within a step the context is encoded, then the dynamics model is
\* called, then its latents are decoded, then the history is updated, then
\* the frame is returned: the history is updated only after decode has
\* succeeded, and before the frame is sent to the client.
C27_OrderWithinStep ==
    [][\A c \in Tasks :
          /\ calls'[c] = SubSeq(StepCalls, 1, Len(calls'[c]))
          /\ (pc'[c] \in (StepPcs \ {"enter"}) /\ generated_frames' # hist0'[c]) =>
                /\ pc'[c] = "convert"
                /\ calls'[c] = StepCalls
          /\ (pc[c] \in StepPcs /\ generated_frames' # generated_frames) =>
                /\ pc[c] = "commit"
                /\ calls[c] = StepCalls
                /\ next_frames[c] # <<>>
                /\ frame[c] = NoFrame
                /\ Len(sent[c]) = started[c] - 1
          /\ (pc[c] = "convert" /\ pc'[c] = "returned") =>
                /\ generated_frames # hist0[c]
                /\ frame'[c] # NoFrame
          /\ sent'[c] # sent[c] =>
                /\ pc[c] = "send"
                /\ generated_frames' = generated_frames
                /\ Len(generated_frames) >=
                      context_window + prediction_horizon * Len(sent'[c])
      ]_vars

C27_Witness ==
    /\ pc[1] = "recv"
    /\ Len(sent[1]) = 1
    /\ codebook_size > 0
    /\ Len(generated_frames) = context_window + prediction_horizon
    /\ pc[2] = "idle"

\* C28: a failed step is not retried: the dynamics model is called at most
\* once for a received message, and once a gateway call has failed no
\* further gateway call is made and step is not entered again for it.
C28_NoRetry ==
    [][\A c \in Tasks :
          /\ CallsOf(c, "forward_inference")' <= 1
          /\ (pc[c] = "raised" /\ error[c] = "generation") =>
                /\ calls'[c] \in {calls[c], <<>>}
                /\ pc'[c] \notin StepPcs
                /\ started'[c] = started[c]
                /\ pc'[c] # pc[c] => (message'[c] = NoMessage /\ pc'[c] = "done")
      ]_vars

C28_Witness ==
    /\ pc[1] = "raised"
    /\ error[1] = "generation"
    /\ message[1].kind = "action"
    /\ calls[1] = <<"tokenize", "forward_inference">>

\* C29: the server seeds the session with exactly context_window frames
\* before it accepts a connection: no handler exists before, and no step of
\* a client's message runs on an unset history or on one shorter than the
\* window.
C29_SeededBeforeServing ==
    /\ main_pc = "construct" => \A c \in Tasks : pc[c] = "idle" /\ ~open[c]
    /\ main_pc = "serving" =>
          /\ has_frames
          /\ Len(initial_frames) = context_window
          /\ Len(generated_frames) >= context_window
          /\ SubSeq(generated_frames, 1, context_window) = initial_frames
    /\ \A c \in Tasks :
          /\ error[c] # "uninitialized"
          /\ pc[c] \in (StepPcs \ {"enter"}) =>
                /\ Len(hist0[c]) >= context_window
                /\ Len(context[c]) = context_window

C29_Witness ==
    /\ main_pc = "serving"
    /\ pc[1] = "encode"
    /\ context_window = MaxW
    /\ hist0[1] = initial_frames
    /\ Len(context[1]) = MaxW

\* C30: a failure while one connection is handled (a malformed message, a
\* generation error, a failed send) ends that connection's handler alone:
\* the server keeps serving, the event loop is released, and nothing of
\* another connection changes, whose waiting action can still be stepped.
C30_FailureEndsOnlyItsHandler ==
    [][\A c \in Tasks :
          /\ (pc'[c] = "raised" \/ pc[c] = "raised") =>
                /\ main_pc' = "serving"
                /\ has_frames'
                /\ \A b \in Tasks \ {c} :
                      /\ pc'[b] = pc[b]
                      /\ inbox'[b] = inbox[b]
                      /\ sent'[b] = sent[b]
                      /\ (open'[b] = open[b] \/ pc'[c] = pc[c])
          /\ (pc[c] = "raised" /\ pc'[c] # "raised") =>
                /\ pc'[c] = "done"
                /\ loop' = 0
          /\ (pc[c] = "done" /\ error[c] # "") =>
                \A b \in Tasks \ {c} :
                    (pc[b] = "recv" /\ inbox[b] # <<>> /\ loop = 0) => ENABLED Recv(b)
      ]_vars

C30_Witness ==
    /\ pc[1] = "done"
    /\ error[1] = "generation"
    /\ pc[2] = "recv"
    /\ Len(sent[2]) = 1
    /\ started[2] = 1
    /\ open[2]
====
